---- MODULE Spec2Model ----
(***************************************************************************)
(* Joy of Painting conversion tool: the canvas codec (JopImage), the       *)
(* image-to-canvas sampling pipeline (Shared, JopImage.fromImage) and the  *)
(* multi-canvas grid (JopMultiBlockImage).                                 *)
(*                                                                         *)
(* Strings are sequences of one-character strings, so that formatting,     *)
(* slicing and parsing are modelled character by character.  Python's      *)
(* integers are unbounded while TLC's are 32-bit: the one value of the     *)
(* program that leaves the signed 32-bit range, n & 0xFFFFFFFF for a       *)
(* negative n, is kept as the pair <<top byte, low 24 bits>>.              *)
(***************************************************************************)
EXTENDS Integers, Sequences, FiniteSets, TLC

VARIABLES
    pc,      \* position of the calling script
    arg,     \* arguments of the call under way
    ret,     \* value returned (or error raised) by a helper call
    image,   \* the PIL image in play
    canvas,  \* a JopImage object
    file,    \* the .paint file on disk (the NBT compound)
    loaded,  \* what JopImage.fromJopFile returned
    grid,    \* a JopMultiBlockImage object
    stdout   \* lines printed so far

vars == <<pc, arg, ret, image, canvas, file, loaded, grid, stdout>>

None == [tag |-> "None"]
Raised(kind) == [tag |-> "Error", kind |-> kind]
IsError(v) == v.tag = "Error"

(***************************************************************************)
(* Bounds of the model.                                                    *)
(***************************************************************************)
\* channel values sampled: 0..ChanSpread, 255-ChanSpread..255 and the
\* one/two hex digit and sign boundaries in between
ChanSpread == 1

(***************************************************************************)
(* Characters and hexadecimal text.                                        *)
(***************************************************************************)
HexChars == <<"0","1","2","3","4","5","6","7","8","9","a","b","c","d","e","f">>
UpperHexChars == <<"0","1","2","3","4","5","6","7","8","9","A","B","C","D","E","F">>

\* value of one hexadecimal digit character, -1 when it is none
HexVal(c) ==
    IF \E i \in 1..16 : HexChars[i] = c
    THEN (CHOOSE i \in 1..16 : HexChars[i] = c) - 1
    ELSE IF \E i \in 1..16 : UpperHexChars[i] = c
         THEN (CHOOSE i \in 1..16 : UpperHexChars[i] = c) - 1
         ELSE -1

\* the digits of hex(n) after the "0x", n >= 0: no leading zeros
RECURSIVE HexDigits(_)
HexDigits(n) ==
    IF n < 16 THEN <<HexChars[n + 1]>>
    ELSE HexDigits(n \div 16) \o <<HexChars[(n % 16) + 1]>>

RECURSIVE ZeroPad(_, _)
ZeroPad(s, width) == IF Len(s) >= width THEN s ELSE ZeroPad(<<"0">> \o s, width)

\* Python's hex() of a value held as <<top byte, low 24 bits>>
PyHex(top, low) ==
    <<"0", "x">> \o
        (IF top = 0 THEN HexDigits(low)
         ELSE HexDigits(top) \o ZeroPad(HexDigits(low), 6))

\* Python's s[i:] (i counted from 0)
SliceFrom(s, i) == SubSeq(s, i + 1, Len(s))
\* Python's s[i:j]
Slice(s, i, j) ==
    SubSeq(s, i + 1, IF j < Len(s) THEN j ELSE Len(s))

\* int(s, 16) of a string of hex digits; -1 stands for the ValueError that
\* an empty string or a non-digit raises
RECURSIVE ParseHex(_)
ParseHex(s) ==
    IF Len(s) = 0 THEN -1
    ELSE IF HexVal(s[Len(s)]) < 0 THEN -1
    ELSE IF Len(s) = 1 THEN HexVal(s[1])
    ELSE LET hi == ParseHex(SubSeq(s, 1, Len(s) - 1))
         IN  IF hi < 0 THEN -1 ELSE hi * 16 + HexVal(s[Len(s)])

(***************************************************************************)
(* Shared.py                                                               *)
(***************************************************************************)
TwoTo24 == 256 * 65536

\* intToHex: a negative n is masked with 0xFFFFFFFF (n + 2^32), then hex()
intToHex(n) ==
    IF n < 0
    THEN LET m == (n + 2147483647) + 1      \* n + 2^31, in 0 .. 2^31 - 1
         IN  PyHex(128 + (m \div TwoTo24), m % TwoTo24)
    ELSE PyHex(n \div TwoTo24, n % TwoTo24)

\* bytes.fromhex(h): the bytes of the digit pairs; <<-1>> stands for the
\* ValueError of an odd length or a non-digit
RECURSIVE BytesFromHex(_)
BytesFromHex(h) ==
    IF Len(h) = 0 THEN <<>>
    ELSE IF Len(h) = 1 \/ HexVal(h[1]) < 0 \/ HexVal(h[2]) < 0 THEN <<-1>>
    ELSE LET rest == BytesFromHex(SubSeq(h, 3, Len(h)))
         IN  IF rest = <<-1>> THEN rest
             ELSE <<HexVal(h[1]) * 16 + HexVal(h[2])>> \o rest

\* struct.unpack(">i", b)[0]: four bytes, big-endian, two's complement
\* (UnpackLittleEndianInt: the "<i" byte order)
UnpackLittleEndianInt(b) ==
    ((IF b[4] >= 128 THEN b[4] - 256 ELSE b[4]) * TwoTo24)
        + (b[3] * 65536) + (b[2] * 256) + b[1]

UnpackBigEndianInt(b) ==
    ((IF b[1] >= 128 THEN b[1] - 256 ELSE b[1]) * TwoTo24)
        + (b[2] * 65536) + (b[3] * 256) + b[4]

hexToInt(h) ==
    LET b == BytesFromHex(h)
    IN  IF b = <<-1>> THEN Raised("ValueError")
        ELSE IF Len(b) # 4 THEN Raised("struct.error")
        ELSE [tag |-> "int", value |-> UnpackBigEndianInt(b)]

(***************************************************************************)
(* JopImage.py: one pixel on its way to the file and back.                 *)
(***************************************************************************)
\* "%02x%02x%02x" % avgColor (fromImage)
FormatColor(rgb) ==
    ZeroPad(HexDigits(rgb[1]), 2) \o ZeroPad(HexDigits(rgb[2]), 2)
        \o ZeroPad(HexDigits(rgb[3]), 2)

\* hexToInt(f"ff{pixel}") (saveJopImage)
EncodePixel(pixel) == hexToInt(<<"f", "f">> \o pixel)

\* intToHex(pixel)[4:] (fromJopFile): drops "0x" and two more characters
\* (DecodePixelKeepAlpha: the slice [2:], which drops the "0x" alone)
DecodePixelKeepAlpha(n) == SliceFrom(intToHex(n), 2)

DecodePixel(n) == SliceFrom(intToHex(n), 4)

\* int(pixel[0:2], 16), int(pixel[2:4], 16), int(pixel[4:6], 16) (getImage)
PixelRGB(pixel) ==
    LET r == ParseHex(Slice(pixel, 0, 2))
        g == ParseHex(Slice(pixel, 2, 4))
        b == ParseHex(Slice(pixel, 4, 6))
    IN  IF r < 0 \/ g < 0 \/ b < 0 THEN Raised("ValueError")
        ELSE [tag |-> "rgb", value |-> <<r, g, b>>]

(***************************************************************************)
(* SpecPixel: one colour encoded, one stored integer decoded.              *)
(***************************************************************************)
Chan == (0..ChanSpread) \cup {15, 16, 127, 128} \cup ((255 - ChanSpread)..255)
Colors == Chan \X Chan \X Chan
\* the alpha byte a stored integer may carry
TopBytes == {0, 1, 15, 16, 127, 128, 254, 255}

\* the signed 32-bit integer with the given top byte and low three bytes
Int32(top, rgb) ==
    ((IF top >= 128 THEN top - 256 ELSE top) * TwoTo24)
        + (rgb[1] * 65536) + (rgb[2] * 256) + rgb[3]

InitPixel ==
    /\ pc = "call"
    /\ arg \in [fn : {"encode"}, rgb : Colors]
          \cup {[fn |-> "decode", n |-> Int32(t, c), top |-> t, rgb |-> c] :
                    t \in TopBytes, c \in Colors}
    /\ ret = None
    /\ image = None /\ canvas = None /\ file = None /\ loaded = None
    /\ grid = None /\ stdout = <<>>

\* the colour formatted by fromImage and packed by saveJopImage
CallEncodePixel ==
    /\ pc = "call" /\ arg.fn = "encode"
    /\ LET pixel == FormatColor(arg.rgb)
       IN  ret' = [tag |-> "encoded", pixel |-> pixel, n |-> EncodePixel(pixel)]
    /\ pc' = "done"
    /\ UNCHANGED <<arg, image, canvas, file, loaded, grid, stdout>>

\* the integer unpacked by fromJopFile and read by getImage
CallDecodePixel ==
    /\ pc = "call" /\ arg.fn = "decode"
    /\ LET pixel == DecodePixel(arg.n)
       IN  ret' = [tag |-> "decoded", pixel |-> pixel, rgb |-> PixelRGB(pixel)]
    /\ pc' = "done"
    /\ UNCHANGED <<arg, image, canvas, file, loaded, grid, stdout>>

NextPixel == CallEncodePixel \/ CallDecodePixel

SpecPixel == InitPixel /\ [][NextPixel]_vars

(***************************************************************************)
(* C2: every colour (r,g,b) is stored as 0xFF000000 | r<<16 | g<<8 | b     *)
(* read as a signed 32-bit integer, that is r*65536 + g*256 + b - 2^24,    *)
(* which lies in -16777216 .. -1; (255,0,0) is stored as -65536 and        *)
(* -65536 decodes to (255,0,0).                                            *)
(***************************************************************************)
C2_SignedPacking ==
    /\ (pc = "done" /\ arg.fn = "encode") =>
          /\ ret.n.tag = "int"
          /\ ret.n.value =
               (arg.rgb[1] * 65536 + arg.rgb[2] * 256 + arg.rgb[3]) - 16777216
          /\ ret.n.value >= -16777216 /\ ret.n.value <= -1
          /\ (arg.rgb = <<255, 0, 0>> => ret.n.value = -65536)
    /\ (pc = "done" /\ arg.fn = "decode" /\ arg.n = -65536) =>
          ret.rgb = [tag |-> "rgb", value |-> <<255, 0, 0>>]

C2_Witness ==
    /\ pc = "done" /\ arg.fn = "encode" /\ arg.rgb = <<255, 0, 0>>
    /\ ret.n = [tag |-> "int", value |-> -65536]

(***************************************************************************)
(* C3: whatever the top byte and the sign of a stored pixel integer n, the *)
(* decoded colour is the low 24 bits of n: r = (n>>16)&0xFF,               *)
(* g = (n>>8)&0xFF, b = n&0xFF.                                            *)
(***************************************************************************)
C3_DecodeMasksAlpha ==
    (pc = "done" /\ arg.fn = "decode") =>
        ret.rgb = [tag |-> "rgb",
                   value |-> << (arg.n % 16777216) \div 65536,
                                (arg.n % 65536) \div 256,
                                arg.n % 256 >>]

(***************************************************************************)
(* JopImage.py: the canvas object and its file.                            *)
(***************************************************************************)
\* JopCanvasType: the enum's values
SMALL == 0
LARGE == 1
LONG == 2
TALL == 3
CanvasTypes == {SMALL, LARGE, LONG, TALL}

\* JopCanvasType.getSize
getSize(ct) ==
    IF ct = SMALL THEN <<16, 16>>
    ELSE IF ct = LARGE THEN <<32, 32>>
    ELSE IF ct = LONG THEN <<32, 16>>
    ELSE IF ct = TALL THEN <<16, 32>>
    ELSE <<0, 0>>

\* JopCanvasType(value): the member with that value, ValueError when none
\* (JopCanvasTypeUnchecked: a lookup that takes any value)
JopCanvasTypeUnchecked(value) == [tag |-> "JopCanvasType", value |-> value]

JopCanvasType(value) ==
    IF value \in CanvasTypes THEN [tag |-> "JopCanvasType", value |-> value]
    ELSE Raised("ValueError")

ROOT_UUID == "d1ebe29f-f4e9-4572-83cd-8b2cdbfc2420"
CANVAS_GEN == 1
CANVAS_VER == 2

\* str(n) of an integer n >= 0
DecChars == <<"0","1","2","3","4","5","6","7","8","9">>
RECURSIVE DecDigits(_)
DecDigits(n) ==
    IF n < 10 THEN <<DecChars[n + 1]>>
    ELSE DecDigits(n \div 10) \o <<DecChars[(n % 10) + 1]>>

\* f"{_ROOT_UUID}_{id}": the UUID is kept as one piece of the text
PaintingName(id) == <<ROOT_UUID, "_">> \o DecDigits(id)

\* JopImage.__init__; `now` is int(time()) at the call
JopImage(canvasType, author, title, pixels, name, now) ==
    [tag |-> "JopImage", canvasType |-> canvasType, author |-> author,
     title |-> title, pixels |-> pixels,
     name |-> IF name = None THEN [text |-> PaintingName(now)] ELSE name]

\* the root compound saveJopImage builds; an error of any pixel's hexToInt
\* is raised before anything is written
saveJopImage(self) ==
    LET ints == [i \in 1..Len(self.pixels) |-> EncodePixel(self.pixels[i])]
    IN  IF \E i \in 1..Len(ints) : IsError(ints[i])
        THEN (LET i == CHOOSE j \in 1..Len(ints) :
                          IsError(ints[j]) /\ \A k \in 1..(j - 1) : ~IsError(ints[k])
              IN ints[i])
        ELSE [tag |-> "File",
              root |-> [generation |-> [type |-> "Int", value |-> CANVAS_GEN],
                        ct |-> [type |-> "Byte", value |-> self.canvasType],
                        pixels |-> [type |-> "IntArray",
                                    value |-> [i \in 1..Len(ints) |-> ints[i].value]],
                        v |-> [type |-> "Int", value |-> CANVAS_VER],
                        author |-> [type |-> "String", value |-> self.author],
                        name |-> [type |-> "String", value |-> self.name.text],
                        title |-> [type |-> "String", value |-> self.title]]]

\* JopImage.fromJopFile: the pixels are read first, then ct, author, title
\* and name, each lookup raising KeyError when the field is absent
fromJopFile(f) ==
    IF f = None THEN Raised("FileNotFoundError")
    ELSE LET root == f.root
             has(k) == k \in DOMAIN root
         IN  IF ~has("pixels") THEN Raised("KeyError")
             ELSE LET pixels == [i \in 1..Len(root.pixels.value) |->
                                     DecodePixel(root.pixels.value[i])]
                  IN  IF ~has("ct") THEN Raised("KeyError")
                      ELSE IF IsError(JopCanvasType(root.ct.value))
                           THEN JopCanvasType(root.ct.value)
                      ELSE IF ~has("author") \/ ~has("title") \/ ~has("name")
                           THEN Raised("KeyError")
                      ELSE JopImage(JopCanvasType(root.ct.value).value,
                                    root.author.value, root.title.value,
                                    pixels, [text |-> root.name.value], 0)

(***************************************************************************)
(* SpecCodec: a canvas is built and saved, or a file written by another    *)
(* program is found on disk; then the file is loaded.                      *)
(***************************************************************************)
\* pixel lists are drawn as patterns 0..MaxPattern over the palette
MaxPattern == 2
\* int(time()) when a canvas is built without a name
Now == 1700000000

Palette ==
    << FormatColor(<<0, 0, 0>>), FormatColor(<<255, 0, 0>>),
       FormatColor(<<0, 255, 0>>), FormatColor(<<0, 0, 255>>),
       FormatColor(<<255, 255, 255>>), FormatColor(<<10, 10, 10>>),
       FormatColor(<<127, 128, 254>>), <<"F", "F", "A", "A", "0", "1">>,
       FormatColor(<<16, 15, 1>>) >>

\* the pixel list of pattern p for a canvas of n pixels
PatternPixels(p, n) ==
    [i \in 1..n |-> Palette[(((i - 1) * (p + 1) + p) % Len(Palette)) + 1]]

Authors == { <<>>, <<"B", "o", "b">> }
Titles == { <<"A">>, <<"A", " ", "B">> }
Names == { None, [text |-> PaintingName(7)] }

Canvases ==
    { JopImage(ct, a, t, PatternPixels(p, getSize(ct)[1] * getSize(ct)[2]), n, Now) :
        ct \in CanvasTypes, a \in Authors, t \in Titles,
        p \in 0..MaxPattern, n \in Names }

Restrict(f, D) == [k \in D |-> f[k]]
Fields == {"generation", "ct", "pixels", "v", "author", "name", "title"}

\* the integers another program may have stored: any alpha byte
ForeignInts(p, n) ==
    [i \in 1..n |->
        LET top == IF p = 0 THEN 255
                   ELSE (<<0, 1, 15, 16, 127, 128, 254, 255>>)[((i + p) % 8) + 1]
        IN  ((IF top >= 128 THEN top - 256 ELSE top) * TwoTo24)
                + ((i * 65793 * (p + 1)) % TwoTo24)]

ForeignRoots ==
    { [generation |-> [type |-> "Int", value |-> CANVAS_GEN],
       ct |-> [type |-> "Byte", value |-> ct],
       pixels |-> [type |-> "IntArray", value |-> ForeignInts(p, n)],
       v |-> [type |-> "Int", value |-> CANVAS_VER],
       author |-> [type |-> "String", value |-> <<"B", "o", "b">>],
       name |-> [type |-> "String", value |-> PaintingName(7)],
       title |-> [type |-> "String", value |-> <<"A">>]] :
        ct \in CanvasTypes \cup {-1, 4, 127},
        p \in 0..MaxPattern,
        n \in {0, 2, 255, 256} }

ForeignFiles ==
    { [tag |-> "File", root |-> Restrict(r, Fields \ drop)] :
        r \in ForeignRoots, drop \in {{}} \cup {{k} : k \in Fields} }

InitCodec ==
    /\ \/ /\ canvas \in Canvases
          /\ file = None
          /\ pc = "built"
       \/ /\ canvas = None
          /\ file \in ForeignFiles \cup {None}
          /\ pc = "found"
    /\ loaded = None
    /\ arg = None /\ ret = None /\ image = None /\ grid = None /\ stdout = <<>>

\* canvas.saveJopImage(path)
SaveJopImage ==
    /\ pc = "built"
    /\ LET f == saveJopImage(canvas)
       IN  IF IsError(f) THEN /\ ret' = f
                              /\ pc' = "failed"
                              /\ UNCHANGED file
           ELSE /\ file' = f
                /\ pc' = "saved"
                /\ UNCHANGED ret
    /\ UNCHANGED <<arg, image, canvas, loaded, grid, stdout>>

\* JopImage.fromJopFile(path)
FromJopFile ==
    /\ pc \in {"saved", "found"}
    /\ loaded' = fromJopFile(file)
    /\ pc' = "loaded"
    /\ UNCHANGED <<arg, ret, image, canvas, file, grid, stdout>>

NextCodec == SaveJopImage \/ FromJopFile

SpecCodec == InitCodec /\ [][NextCodec]_vars

\* the colours of a pixel list, as getImage reads them
PixelColors(pixels) == [i \in 1..Len(pixels) |-> PixelRGB(pixels[i])]
IsLowerHex(pixel) == \A i \in 1..Len(pixel) : \E j \in 1..16 : HexChars[j] = pixel[i]

(***************************************************************************)
(* C1: a canvas saved with saveJopImage and loaded back with fromJopFile   *)
(* has the same canvas type, author, title and name, and the same colours  *)
(* in the same order (the very same pixel strings when the canvas holds    *)
(* them in the lower-case form the tool itself writes).                    *)
(***************************************************************************)
C1_RoundTrip ==
    (pc = "loaded" /\ canvas # None) =>
        /\ loaded.tag = "JopImage"
        /\ loaded.canvasType = canvas.canvasType
        /\ loaded.author = canvas.author
        /\ loaded.title = canvas.title
        /\ loaded.name = canvas.name
        /\ Len(loaded.pixels) = Len(canvas.pixels)
        /\ PixelColors(loaded.pixels) = PixelColors(canvas.pixels)
        /\ \A i \in 1..Len(canvas.pixels) :
              /\ ~IsError(PixelRGB(loaded.pixels[i]))
              /\ IsLowerHex(canvas.pixels[i]) => loaded.pixels[i] = canvas.pixels[i]

C1_Witness ==
    /\ pc = "loaded" /\ canvas # None /\ loaded.tag = "JopImage"
    /\ canvas.canvasType = TALL
    /\ Len(loaded.pixels) = 512
    /\ \E i \in 1..Len(canvas.pixels) : ~IsLowerHex(canvas.pixels[i])
    /\ \E i, j \in 1..Len(loaded.pixels) : loaded.pixels[i] # loaded.pixels[j]

(***************************************************************************)
(* C10: loading a file that lacks one of the fields pixels, ct, author,    *)
(* title, name, or whose ct is not one of 0..3, ends in an error: no       *)
(* canvas is returned.                                                     *)
(***************************************************************************)
SchemaViolation(f) ==
    \/ \E k \in {"pixels", "ct", "author", "title", "name"} : k \notin DOMAIN f.root
    \/ f.root.ct.value \notin 0..3

C10_DecodeFailsFast ==
    (pc = "loaded" /\ file # None /\ SchemaViolation(file)) =>
        /\ IsError(loaded)
        /\ loaded.tag # "JopImage"

C10_Witness ==
    /\ pc = "loaded" /\ file # None /\ IsError(loaded)
    /\ DOMAIN file.root = Fields \ {"name"}
    /\ file.root.ct.value \in 0..3
    /\ Len(file.root.pixels.value) = 256

(***************************************************************************)
(* C14: every canvas fromJopFile returns has as many pixels as its canvas  *)
(* type has (width * height); a file whose pixels array has another length *)
(* ends in an error.                                                       *)
(***************************************************************************)
C14_PixelCount ==
    (pc = "loaded" /\ file # None) =>
        /\ (loaded.tag = "JopImage") =>
              Len(loaded.pixels) =
                  getSize(loaded.canvasType)[1] * getSize(loaded.canvasType)[2]
        /\ (/\ ~SchemaViolation(file)
            /\ Len(file.root.pixels.value) #
                  getSize(file.root.ct.value)[1] * getSize(file.root.ct.value)[2]) =>
              IsError(loaded)

(***************************************************************************)
(* Shared.py: tileGridIndices.                                             *)
(***************************************************************************)
\* ceil(a / b) for a >= 0, b >= 1
CeilDiv(a, b) == (a + b - 1) \div b

\* (arangeNoStep: a step of 0 taken as "no elements" instead of an error)
arangeNoStep(start, stop, step) ==
    IF step = 0 THEN [tag |-> "array", value |-> <<>>]
    ELSE LET n == IF step > 0
                  THEN (IF stop > start THEN ((stop - start) + (step - 1)) \div step ELSE 0)
                  ELSE (IF stop < start THEN ((start - stop) + ((-step) - 1)) \div (-step) ELSE 0)
         IN  [tag |-> "array", value |-> [i \in 1..n |-> start + ((i - 1) * step)]]

\* np.arange(start, stop, step) of Python integers: start, start + step, ...
\* while below stop (above stop for a negative step); a zero step raises
\* ZeroDivisionError
arange(start, stop, step) ==
    IF step = 0 THEN Raised("ZeroDivisionError")
    ELSE LET n == IF step > 0
                  THEN (IF stop > start THEN CeilDiv(stop - start, step) ELSE 0)
                  ELSE (IF stop < start THEN CeilDiv(start - stop, -step) ELSE 0)
         IN  [tag |-> "array", value |-> [i \in 1..n |-> start + (i - 1) * step]]

\* round(t / 2): Python rounds a half to the even neighbour
RoundHalf(t) ==
    IF t % 2 = 0 THEN t \div 2
    ELSE LET k == t \div 2 IN IF k % 2 = 0 THEN k ELSE k + 1

\* np.stack(np.meshgrid(x, y), axis=-1): grid[j][i] = (x[i], y[j])
\* (meshgridIJ: indexing="ij", grid[i][j] = (x[i], y[j]))
meshgridIJ(x, y) ==
    [i \in 1..Len(x) |-> [j \in 1..Len(y) |-> <<x[i], y[j]>>]]

meshgrid(x, y) ==
    [j \in 1..Len(y) |-> [i \in 1..Len(x) |-> <<x[i], y[j]>>]]

tileGridIndices(gridSize, tileSize, startAtZero) ==
    LET startPoint == IF startAtZero THEN <<0, 0>>
                      ELSE <<RoundHalf(tileSize[1]), RoundHalf(tileSize[2])>>
        x == arange(startPoint[1], gridSize[1], tileSize[1])
        y == arange(startPoint[2], gridSize[2], tileSize[2])
    IN  IF IsError(x) THEN x
        ELSE IF IsError(y) THEN y
        ELSE [tag |-> "ndarray", rows |-> meshgrid(x.value, y.value),
              shape |-> <<Len(y.value), Len(x.value)>>]

(***************************************************************************)
(* SpecTile: one call of tileGridIndices.                                  *)
(***************************************************************************)
MaxExtent == 6
MaxTile == 3
Extents == (0..MaxExtent) \cup {64}
TileSizes == (-1..MaxTile) \cup {32}

InitTile ==
    /\ pc = "call"
    /\ arg \in [fn : {"tileGridIndices"}, gridSize : Extents \X Extents,
                tileSize : TileSizes \X TileSizes, startAtZero : BOOLEAN]
    /\ ret = None
    /\ image = None /\ canvas = None /\ file = None /\ loaded = None
    /\ grid = None /\ stdout = <<>>

CallTileGridIndices ==
    /\ pc = "call" /\ arg.fn = "tileGridIndices"
    /\ ret' = tileGridIndices(arg.gridSize, arg.tileSize, arg.startAtZero)
    /\ pc' = "done"
    /\ UNCHANGED <<arg, image, canvas, file, loaded, grid, stdout>>

NextTile == CallTileGridIndices

SpecTile == InitTile /\ [][NextTile]_vars

\* the elements of a grid in iteration order: row after row
RECURSIVE Flatten(_)
Flatten(rows) ==
    IF Len(rows) = 0 THEN <<>> ELSE rows[1] \o Flatten(Tail(rows))

(***************************************************************************)
(* C6: with startAtZero and a tile size of at least 1 on each axis, the    *)
(* grid holds the origins (i*tileW, j*tileH) from (0,0) on, row j holding  *)
(* the origins of increasing x for that y, rows in increasing y; extent    *)
(* (64,64) with tile (32,32) gives (0,0), (32,0), (0,32), (32,32).         *)
(***************************************************************************)
C6_GridOrder ==
    (/\ pc = "done" /\ arg.fn = "tileGridIndices" /\ arg.startAtZero
     /\ arg.tileSize[1] >= 1 /\ arg.tileSize[2] >= 1) =>
        /\ ret.tag = "ndarray"
        /\ \A j \in 1..Len(ret.rows) :
              /\ Len(ret.rows[j]) = Len(ret.rows[1])
              /\ \A i \in 1..Len(ret.rows[j]) :
                    ret.rows[j][i] =
                        <<(i - 1) * arg.tileSize[1], (j - 1) * arg.tileSize[2]>>
        /\ (arg.gridSize[1] > 0 /\ arg.gridSize[2] > 0) =>
              /\ Len(ret.rows) >= 1 /\ Len(ret.rows[1]) >= 1
              /\ ret.rows[1][1] = <<0, 0>>
        /\ (arg.gridSize = <<64, 64>> /\ arg.tileSize = <<32, 32>>) =>
              Flatten(ret.rows) = << <<0, 0>>, <<32, 0>>, <<0, 32>>, <<32, 32>> >>

C6_Witness ==
    /\ pc = "done" /\ arg.fn = "tileGridIndices" /\ arg.startAtZero
    /\ arg.gridSize = <<64, 64>> /\ arg.tileSize = <<32, 32>>
    /\ ret.tag = "ndarray" /\ Len(Flatten(ret.rows)) = 4

(***************************************************************************)
(* C13: with startAtZero false and a tile size of at least 1 on each axis, *)
(* the first origin is (floor(tileW/2), floor(tileH/2)) and every origin   *)
(* lies a whole number of tiles after it.                                  *)
(***************************************************************************)
C13_HalfOffset ==
    (/\ pc = "done" /\ arg.fn = "tileGridIndices" /\ ~arg.startAtZero
     /\ arg.tileSize[1] >= 1 /\ arg.tileSize[2] >= 1) =>
        /\ ret.tag = "ndarray"
        /\ \A j \in 1..Len(ret.rows) : \A i \in 1..Len(ret.rows[j]) :
              ret.rows[j][i] =
                  << (arg.tileSize[1] \div 2) + ((i - 1) * arg.tileSize[1]),
                     (arg.tileSize[2] \div 2) + ((j - 1) * arg.tileSize[2]) >>

(***************************************************************************)
(* PIL images: a size and rows of RGB triples, px[y + 1][x + 1].           *)
(***************************************************************************)
Image(size, px) == [tag |-> "Image", size |-> size, px |-> px]

Pixel(img, x, y) == img.px[y + 1][x + 1]

\* image.crop((left, top, right, bottom)): what lies outside the image is
\* black
crop(img, box) ==
    LET w == box[3] - box[1]
        h == box[4] - box[2]
    IN  Image(<<w, h>>,
              [y \in 1..h |-> [x \in 1..w |->
                  LET sx == box[1] + x - 1
                      sy == box[2] + y - 1
                  IN  IF sx >= 0 /\ sx < img.size[1] /\ sy >= 0 /\ sy < img.size[2]
                      THEN Pixel(img, sx, sy)
                      ELSE <<0, 0, 0>>]])

\* image.resize(size, NEAREST): the source pixel under each target pixel's
\* centre
resize(img, size) ==
    Image(size,
          [y \in 1..size[2] |-> [x \in 1..size[1] |->
              Pixel(img, ((2 * (x - 1) + 1) * img.size[1]) \div (2 * size[1]),
                         ((2 * (y - 1) + 1) * img.size[2]) \div (2 * size[2]))]])

(***************************************************************************)
(* Shared.py: averageColor.                                                *)
(***************************************************************************)
\* np.reshape(np.array(image), (-1, 3)): the pixels, row after row
PixelList(img) == Flatten(img.px)

\* np.unique(..., axis=0): the distinct colours
\* (AllColors: the list as it is, duplicates kept)
AllColors(pixels) == pixels

RECURSIVE SetToSeq(_)
SetToSeq(S) ==
    IF S = {} THEN <<>>
    ELSE LET e == CHOOSE e \in S : TRUE IN <<e>> \o SetToSeq(S \ {e})

unique(pixels) == SetToSeq({pixels[i] : i \in 1..Len(pixels)})

RECURSIVE SumChannel(_, _)
SumChannel(colors, c) ==
    IF Len(colors) = 0 THEN 0 ELSE colors[1][c] + SumChannel(Tail(colors), c)

\* round(total / n): to the nearest integer, a half to the even neighbour
RoundDiv(total, n) ==
    LET q == total \div n
        r == total % n
    IN  IF 2 * r < n THEN q
        ELSE IF 2 * r > n THEN q + 1
        ELSE IF q % 2 = 0 THEN q ELSE q + 1

averageColor(img) ==
    LET colors == unique(PixelList(img))
        n == Len(colors)
    IN  IF n = 0 THEN Raised("ValueError")      \* the mean of nothing is nan
        ELSE [tag |-> "rgb",
              value |-> << RoundDiv(SumChannel(colors, 1), n),
                           RoundDiv(SumChannel(colors, 2), n),
                           RoundDiv(SumChannel(colors, 3), n) >>]

(***************************************************************************)
(* SpecAvg: averageColor of one small region.                              *)
(***************************************************************************)
\* regions of up to MaxRegionPixels pixels
MaxRegionPixels == 4
RegionColors ==
    { <<0, 0, 0>>, <<255, 255, 255>>, <<10, 10, 10>>, <<1, 0, 2>>, <<0, 1, 255>> }
RegionSizes ==
    { s \in (1..MaxRegionPixels) \X (1..MaxRegionPixels) :
        s[1] * s[2] <= MaxRegionPixels }
Regions ==
    UNION { { Image(s, px) : px \in [1..s[2] -> [1..s[1] -> RegionColors]] } :
            s \in RegionSizes }

InitAvg ==
    /\ pc = "call"
    /\ image \in Regions
    /\ arg = [fn |-> "averageColor"]
    /\ ret = None
    /\ canvas = None /\ file = None /\ loaded = None
    /\ grid = None /\ stdout = <<>>

CallAverageColor ==
    /\ pc = "call" /\ arg.fn = "averageColor"
    /\ ret' = averageColor(image)
    /\ pc' = "done"
    /\ UNCHANGED <<arg, image, canvas, file, loaded, grid, stdout>>

NextAvg == CallAverageColor

SpecAvg == InitAvg /\ [][NextAvg]_vars

RECURSIVE SumOver(_, _)
SumOver(S, c) ==
    IF S = {} THEN 0
    ELSE LET e == CHOOSE e \in S : TRUE IN e[c] + SumOver(S \ {e}, c)

Abs(v) == IF v < 0 THEN -v ELSE v

(***************************************************************************)
(* C9: averageColor of a non-empty region is, channel by channel, the mean *)
(* over the distinct colours of the region (each counted once), rounded to *)
(* a nearest integer; (0,0,0), (0,0,0), (255,255,255), (10,10,10) gives    *)
(* (88,88,88).                                                             *)
(***************************************************************************)
C9_AverageColor ==
    (pc = "done" /\ arg.fn = "averageColor") =>
        LET D == { Pixel(image, x, y) : x \in 0..(image.size[1] - 1),
                                         y \in 0..(image.size[2] - 1) }
            n == Cardinality(D)
        IN  /\ ret.tag = "rgb"
            /\ \A c \in 1..3 :
                  /\ ret.value[c] \in 0..255
                  /\ 2 * Abs(n * ret.value[c] - SumOver(D, c)) <= n
            /\ (PixelList(image) =
                    << <<0, 0, 0>>, <<0, 0, 0>>, <<255, 255, 255>>, <<10, 10, 10>> >>)
                  => ret.value = <<88, 88, 88>>

C9_Witness ==
    /\ pc = "done" /\ arg.fn = "averageColor"
    /\ image.size = <<2, 2>>
    /\ PixelList(image) =
           << <<0, 0, 0>>, <<0, 0, 0>>, <<255, 255, 255>>, <<10, 10, 10>> >>
    /\ ret = [tag |-> "rgb", value |-> <<88, 88, 88>>]

(***************************************************************************)
(* Shared.py: constrainToPowerOfTwo.                                       *)
(***************************************************************************)
\* a & b of two integers >= 0 (0 & -1 is 0 as well)
RECURSIVE BitAnd(_, _)
BitAnd(a, b) ==
    IF a = 0 \/ b = 0 THEN 0
    ELSE ((a % 2) * (b % 2)) + 2 * BitAnd(a \div 2, b \div 2)

RECURSIVE Pow2(_)
Pow2(k) == IF k = 0 THEN 1 ELSE 2 * Pow2(k - 1)

\* int(np.ceil(np.log2(w))), w >= 1: the least k with 2^k >= w
\* (FloorLog2: the greatest k with 2^k <= w)
RECURSIVE FloorLog2(_)
FloorLog2(w) == IF w <= 1 THEN 0 ELSE 1 + FloorLog2(w \div 2)

RECURSIVE CeilLog2(_)
CeilLog2(w) == IF w <= 1 THEN 0 ELSE 1 + CeilLog2((w + 1) \div 2)

constrainToPowerOfTwo(img) ==
    LET width == img.size[1]
        height == img.size[2]
    IN  IF BitAnd(width, width - 1) = 0 /\ BitAnd(height, height - 1) = 0
        THEN img                                                \* image.copy()
        ELSE resize(img, <<Pow2(CeilLog2(width)), Pow2(CeilLog2(height))>>)

(***************************************************************************)
(* SpecPow2: constrainToPowerOfTwo of one image.                           *)
(***************************************************************************)
\* source images are drawn as patterns over these colours
SourceColors ==
    << <<0, 0, 0>>, <<255, 255, 255>>, <<10, 10, 10>>, <<255, 0, 0>>,
       <<1, 2, 3>>, <<0, 1, 255>>, <<128, 127, 16>> >>

PatternImage(size, p) ==
    Image(size,
          [y \in 1..size[2] |-> [x \in 1..size[1] |->
              SourceColors[((((x - 1) * (p + 2)) + ((y - 1) * 3) + p)
                              % Len(SourceColors)) + 1]]])

MaxSide == 6
Pow2Sizes == ((1..MaxSide) \X (1..MaxSide)) \cup {<<100, 50>>, <<64, 64>>}

InitPow2 ==
    /\ pc = "call"
    /\ image \in { PatternImage(s, p) : s \in Pow2Sizes, p \in 0..MaxPattern }
    /\ arg = [fn |-> "constrainToPowerOfTwo"]
    /\ ret = None
    /\ canvas = None /\ file = None /\ loaded = None
    /\ grid = None /\ stdout = <<>>

CallConstrainToPowerOfTwo ==
    /\ pc = "call" /\ arg.fn = "constrainToPowerOfTwo"
    /\ ret' = constrainToPowerOfTwo(image)
    /\ pc' = "done"
    /\ UNCHANGED <<arg, image, canvas, file, loaded, grid, stdout>>

NextPow2 == CallConstrainToPowerOfTwo

SpecPow2 == InitPow2 /\ [][NextPow2]_vars

IsPowerOfTwo(v) == \E k \in 0..30 : Pow2(k) = v

importTileSize(origSize, canvasSize) ==
    << origSize[1] \div canvasSize[1], origSize[2] \div canvasSize[2] >>

\* the colour strings of one row of tile origins
rowPixels(img, gridRow, tileSize) ==
    [i \in 1..Len(gridRow) |->
        LET gridTopLeft == gridRow[i]
            gridBB == << gridTopLeft[1], gridTopLeft[2],
                         gridTopLeft[1] + tileSize[1], gridTopLeft[2] + tileSize[2] >>
        IN  FormatColor(averageColor(crop(img, gridBB)).value)]

\* JopImage.fromImage: the canvas, or the error tileGridIndices raises
fromImage(img, canvasType, title, author, name, now) ==
    LET origSize == img.size
        canvasSize == getSize(canvasType)
        tileSize == importTileSize(origSize, canvasSize)
        gridIndices == tileGridIndices(origSize, tileSize, TRUE)
    IN  IF IsError(gridIndices) THEN gridIndices
        ELSE JopImage(canvasType, author, title,
                      Flatten([j \in 1..Len(gridIndices.rows) |->
                                  rowPixels(img, gridIndices.rows[j], tileSize)]),
                      name, now)

\* JopImage.getImage(size=None): pixel (x, y) is pixels[y * width + x];
\* a pixel list too short raises IndexError, a pixel string that is no
\* colour raises ValueError
getImage(self) ==
    LET canvasSize == getSize(self.canvasType)
        at(x, y) == (y * canvasSize[1]) + x + 1
    IN  IF Len(self.pixels) < canvasSize[1] * canvasSize[2]
        THEN Raised("IndexError")
        ELSE IF \E i \in 1..(canvasSize[1] * canvasSize[2]) :
                    IsError(PixelRGB(self.pixels[i]))
        THEN Raised("ValueError")
        ELSE Image(canvasSize,
                   [y \in 1..canvasSize[2] |-> [x \in 1..canvasSize[1] |->
                       PixelRGB(self.pixels[at(x - 1, y - 1)]).value]])

(***************************************************************************)
(* SpecImport: one image turned into one canvas, and the canvas turned     *)
(* back into an image.                                                     *)
(***************************************************************************)
\* source sides: one less than the canvas side, its multiples with up to
\* MaxSlack pixels more, and 70
MaxSlack == 1
SourceSides(side) ==
    {side - 1, 70} \cup { (side * k) + e : k \in {1, 2}, e \in 0..MaxSlack }

InitImport ==
    /\ pc = "opened"
    /\ \E c \in { [size |-> <<w, h>>, p |-> p, ct |-> ct] :
                    ct \in CanvasTypes, p \in 0..1,
                    w \in SourceSides(16) \cup SourceSides(32),
                    h \in SourceSides(16) \cup SourceSides(32) } :
          /\ image = PatternImage(c.size, c.p)
          /\ arg = [fn |-> "fromImage", canvas |-> c.ct,
                    title |-> <<"A">>, author |-> <<"B", "o", "b">>, name |-> None]
    /\ canvas = None /\ ret = None
    /\ file = None /\ loaded = None /\ grid = None /\ stdout = <<>>

\* JopImage.fromImage(image, canvas, title, author)
FromImage ==
    /\ pc = "opened"
    /\ canvas' = fromImage(image, arg.canvas, arg.title, arg.author, arg.name, Now)
    /\ pc' = IF IsError(canvas') THEN "failed" ELSE "imported"
    /\ UNCHANGED <<arg, ret, image, file, loaded, grid, stdout>>

\* canvas.getImage()
GetImage ==
    /\ pc = "imported"
    /\ ret' = getImage(canvas)
    /\ pc' = "rebuilt"
    /\ UNCHANGED <<arg, image, canvas, file, loaded, grid, stdout>>

NextImport == FromImage \/ GetImage

SpecImport == InitImport /\ [][NextImport]_vars

(***************************************************************************)
(* C4: when the source is at least as wide and as high as the canvas type  *)
(* (W, H), fromImage returns a canvas of exactly W*H pixels; a Large       *)
(* canvas always has 1024.                                                 *)
(***************************************************************************)
C4_CanvasSize ==
    (/\ pc \in {"imported", "failed"}
     /\ image.size[1] >= getSize(arg.canvas)[1]
     /\ image.size[2] >= getSize(arg.canvas)[2]) =>
        /\ canvas.tag = "JopImage"
        /\ Len(canvas.pixels) = getSize(arg.canvas)[1] * getSize(arg.canvas)[2]
        /\ (arg.canvas = LARGE) => (Len(canvas.pixels) = 1024)

(***************************************************************************)
(* C5: the tile origins fromImage samples leave out partial trailing       *)
(* tiles: each origin (ox, oy) has ox + tileW <= srcW and oy + tileH <=    *)
(* srcH; a 70x70 source for a 32x32 canvas has tile size (2,2) and only    *)
(* tiles inside its first 64x64 pixels are sampled.                        *)
(***************************************************************************)
C5_Truncation ==
    (/\ pc \in {"imported", "failed"}
     /\ image.size[1] >= getSize(arg.canvas)[1]
     /\ image.size[2] >= getSize(arg.canvas)[2]) =>
        LET tileSize == importTileSize(image.size, getSize(arg.canvas))
            origins == tileGridIndices(image.size, tileSize, TRUE)
        IN  /\ origins.tag = "ndarray"
            /\ \A j \in 1..Len(origins.rows) : \A i \in 1..Len(origins.rows[j]) :
                  /\ origins.rows[j][i][1] + tileSize[1] <= image.size[1]
                  /\ origins.rows[j][i][2] + tileSize[2] <= image.size[2]
            /\ (image.size = <<70, 70>> /\ arg.canvas = LARGE) =>
                  /\ tileSize = <<2, 2>>
                  /\ \A j \in 1..Len(origins.rows) : \A i \in 1..Len(origins.rows[j]) :
                        /\ origins.rows[j][i][1] + tileSize[1] <= 64
                        /\ origins.rows[j][i][2] + tileSize[2] <= 64

(***************************************************************************)
(* C19: when the source is at least as wide and as high as the canvas type *)
(* (W, H), the image getImage() rebuilds from the canvas of fromImage has, *)
(* at every (x, y) with x < W and y < H, the average colour of the source  *)
(* tile with origin (x*tileW, y*tileH); a W x H source comes back pixel    *)
(* for pixel.                                                              *)
(***************************************************************************)
C19_ImportRebuild ==
    (/\ pc \in {"rebuilt", "failed"}
     /\ image.size[1] >= getSize(arg.canvas)[1]
     /\ image.size[2] >= getSize(arg.canvas)[2]) =>
        LET size == getSize(arg.canvas)
            tileSize == << image.size[1] \div size[1], image.size[2] \div size[2] >>
            tileColor(x, y) ==
                averageColor(crop(image, << x * tileSize[1], y * tileSize[2],
                                            (x + 1) * tileSize[1],
                                            (y + 1) * tileSize[2] >>)).value
        IN  /\ pc = "rebuilt"
            /\ ret.tag = "Image"
            /\ ret.size = size
            /\ \A y \in 0..(size[2] - 1) : \A x \in 0..(size[1] - 1) :
                  Pixel(ret, x, y) = tileColor(x, y)
            /\ (image.size = size) => (ret.px = image.px)

(***************************************************************************)
(* JopMultiBlockImage.py                                                   *)
(***************************************************************************)
MAX_RAND_TIMESTAMP == 10000

\* ord(c) of the characters that occur in titles, authors and cell titles
Ord(c) ==
    CASE c = " " -> 32 [] c = "(" -> 40 [] c = ")" -> 41 [] c = "," -> 44
      [] c = "A" -> 65 [] c = "B" -> 66 [] c = "b" -> 98 [] c = "o" -> 111
      [] OTHER -> 48 + ((CHOOSE i \in 1..10 : DecChars[i] = c) - 1)

\* stringToAsciiInt: the sum of the code points of str(o)
RECURSIVE stringToAsciiInt(_)
stringToAsciiInt(o) ==
    IF Len(o) = 0 THEN 0 ELSE Ord(o[1]) + stringToAsciiInt(Tail(o))

\* (generatePaintingIdNoRand: the id without the random.randint term)
generatePaintingIdNoRand(title, author, uuidSum, rand) ==
    stringToAsciiInt(title \o <<" ">> \o author) + uuidSum

\* generatePaintingId; uuidSum is stringToAsciiInt(uuid4()) and rand is
\* random.randint(0, _MAX_RAND_TIMESTAMP), both drawn by the call
generatePaintingId(title, author, uuidSum, rand) ==
    stringToAsciiInt(title \o <<" ">> \o author) + uuidSum + rand

\* curId += 1
\* (sameId: the counter left as it is)
sameId(curId) == curId

nextId(curId) == curId + 1

\* (cellTitleRowCol: the cell title written as row, column)
cellTitleRowCol(title, x, y) ==
    title \o <<" ", "(">> \o DecDigits(y) \o <<",", " ">> \o DecDigits(x) \o <<")">>

\* f"{title} ({x}, {y})"
cellTitle(title, x, y) ==
    title \o <<" ", "(">> \o DecDigits(x) \o <<",", " ">> \o DecDigits(y) \o <<")">>

\* (namesValidPerRow: names compared within each row only)
namesValidPerRow(imageGrid) ==
    \A y \in 1..Len(imageGrid) :
        \A x1, x2 \in 1..Len(imageGrid[y]) :
            (x1 # x2) => (imageGrid[y][x1].name # imageGrid[y][x2].name)

\* areNamesValid: as many distinct names as cells
areNamesValid(imageGrid) ==
    LET names == Flatten([y \in 1..Len(imageGrid) |->
                            [x \in 1..Len(imageGrid[y]) |-> imageGrid[y][x].name]])
    IN  Len(names) = Cardinality({names[i] : i \in 1..Len(names)})

NamesWarning ==
    "The names of JopImage objects in the grid are not unique!"

\* JopMultiBlockImage.__init__
JopMultiBlockImage(author, title, imageGrid) ==
    [tag |-> "JopMultiBlockImage", author |-> author, title |-> title,
     imageGrid |-> imageGrid]

\* the loop over the cells of fromImage, cell k (from 0) being column
\* k mod gridSize[0] of row k div gridSize[0]; acc holds curId and the
\* cells built so far; an error of a cell ends the loop
RECURSIVE segmentLoop(_, _, _)
segmentLoop(c, k, acc) ==
    IF k >= c.gridSize[1] * c.gridSize[2] THEN acc
    ELSE LET x == k % c.gridSize[1]
             y == k \div c.gridSize[1]
         IN  IF y + 1 > Len(c.gridIndicies.rows)
                    \/ x + 1 > Len(c.gridIndicies.rows[y + 1])
             THEN Raised("IndexError")
             ELSE LET gridTopLeft == c.gridIndicies.rows[y + 1][x + 1]
                      segmentImage ==
                          crop(c.imageSized,
                               << gridTopLeft[1], gridTopLeft[2],
                                  gridTopLeft[1] + c.tileSize[1],
                                  gridTopLeft[2] + c.tileSize[2] >>)
                      jopSegment ==
                          fromImage(segmentImage, c.canvas, cellTitle(c.title, x, y),
                                    c.author, [text |-> PaintingName(acc.curId)], 0)
                  IN  IF IsError(jopSegment) THEN jopSegment
                      ELSE segmentLoop(c, k + 1,
                                       [tag |-> "cells",
                                        curId |-> nextId(acc.curId),
                                        cells |-> Append(acc.cells, jopSegment)])

\* JopMultiBlockImage.fromImage
gridFromImage(gridSize, img, title, author, canvasType, uuidSum, rand) ==
    LET imageSized == constrainToPowerOfTwo(img)
        imageFullSize == imageSized.size
    IN  IF gridSize[1] = 0 \/ gridSize[2] = 0 THEN Raised("ZeroDivisionError")
        ELSE
        LET tileSize == << imageFullSize[1] \div gridSize[1],
                           imageFullSize[2] \div gridSize[2] >>
            gridIndicies == tileGridIndices(imageFullSize, tileSize, TRUE)
            rootId == generatePaintingId(title, author, uuidSum, rand)
        IN  IF IsError(gridIndicies) THEN gridIndicies
            ELSE LET done == segmentLoop(
                                [imageSized |-> imageSized, tileSize |-> tileSize,
                                 gridIndicies |-> gridIndicies, gridSize |-> gridSize,
                                 canvas |-> canvasType, title |-> title,
                                 author |-> author],
                                0, [tag |-> "cells", curId |-> rootId, cells |-> <<>>])
                 IN  IF IsError(done) THEN done
                     ELSE JopMultiBlockImage(author, title,
                              [y \in 1..gridSize[2] |-> [x \in 1..gridSize[1] |->
                                  done.cells[((y - 1) * gridSize[1]) + x]]])

(***************************************************************************)
(* SpecGrid: one image imported as a grid of canvases.                     *)
(***************************************************************************)
\* grids of up to MaxGrid x MaxGrid cells
MaxGrid == 2
\* random.randint draws 0..MaxRandDraw and the largest value
MaxRandDraw == 1
UuidSumMin == (4 * 45) + 52 + 56 + (30 * 48)
UuidSumMax == (4 * 45) + 52 + 98 + (30 * 102)
IdDraws ==
    { [uuidSum |-> UuidSumMin, rand |-> r] : r \in 0..MaxRandDraw }
        \cup { [uuidSum |-> UuidSumMax, rand |-> MAX_RAND_TIMESTAMP] }

GridSources == { <<32, 32>>, <<30, 20>>, <<64, 32>>, <<16, 16>>, <<1, 1>> }

InitGrid ==
    /\ pc = "opened"
    /\ image \in { PatternImage(s, 0) : s \in GridSources }
    /\ arg \in [fn : {"gridFromImage"}, gridSize : (0..MaxGrid) \X (0..MaxGrid),
                canvas : CanvasTypes, title : Titles, author : {<<"B", "o", "b">>},
                draw : IdDraws]
    /\ grid = None /\ stdout = <<>>
    /\ canvas = None /\ ret = None /\ file = None /\ loaded = None

\* JopMultiBlockImage.fromImage(gridSize, image, title, author, canvas);
\* the constructor prints the warning when two cells share a name
GridFromImage ==
    /\ pc = "opened"
    /\ grid' = gridFromImage(arg.gridSize, image, arg.title, arg.author,
                              arg.canvas, arg.draw.uuidSum, arg.draw.rand)
    /\ IF IsError(grid') THEN pc' = "failed" /\ UNCHANGED stdout
       ELSE /\ pc' = "imported"
            /\ stdout' = IF areNamesValid(grid'.imageGrid) THEN stdout
                         ELSE Append(stdout, NamesWarning)
    /\ UNCHANGED <<arg, ret, image, canvas, file, loaded>>

NextGrid == GridFromImage

SpecGrid == InitGrid /\ [][NextGrid]_vars

(***************************************************************************)
(* C7: in a grid built by one fromImage call, the cell visited k-th in     *)
(* row-major order (k = row * gridCols + col, from 0) is named             *)
(* <uuid>_<rootId + k> for the one rootId of the call, so the names of the *)
(* grid are pairwise distinct; a 2x2 grid has the ids root .. root + 3.    *)
(***************************************************************************)
C7_RootId ==
    stringToAsciiInt(arg.title \o <<" ">> \o arg.author)
        + arg.draw.uuidSum + arg.draw.rand

C7_GridUniqueness ==
    (pc = "imported") =>
        LET cols == arg.gridSize[1]
            rows == arg.gridSize[2]
            cell(k) == grid.imageGrid[(k \div cols) + 1][(k % cols) + 1]
        IN  /\ Len(grid.imageGrid) = rows
            /\ \A y \in 1..rows : Len(grid.imageGrid[y]) = cols
            /\ \A k \in 0..((rows * cols) - 1) :
                  cell(k).name.text = <<ROOT_UUID, "_">> \o DecDigits(C7_RootId + k)
            /\ \A k1, k2 \in 0..((rows * cols) - 1) :
                  (k1 # k2) => (cell(k1).name # cell(k2).name)
            /\ stdout = <<>>

C7_Witness ==
    /\ pc = "imported" /\ arg.gridSize = <<2, 2>>
    /\ grid.tag = "JopMultiBlockImage"
    /\ grid.imageGrid[1][1].name.text = PaintingName(C7_RootId)
    /\ grid.imageGrid[1][2].name.text = PaintingName(C7_RootId + 1)
    /\ grid.imageGrid[2][1].name.text = PaintingName(C7_RootId + 2)
    /\ grid.imageGrid[2][2].name.text = PaintingName(C7_RootId + 3)

\* the tile size of the grid import and of the canvas build of each cell
gridTileSize ==
    LET full == constrainToPowerOfTwo(image).size
    IN  << full[1] \div arg.gridSize[1], full[2] \div arg.gridSize[2] >>

cellTileSize ==
    << gridTileSize[1] \div getSize(arg.canvas)[1],
       gridTileSize[2] \div getSize(arg.canvas)[2] >>

(***************************************************************************)
(* C11: a grid import whose tile size (normalizedW // gridCols,            *)
(* normalizedH // gridRows) has a zero component, and a canvas build whose *)
(* tile size (floor(srcW/W), floor(srcH/H)) has a zero component, end in   *)
(* an error and return no grid and no canvas.                              *)
(***************************************************************************)
C11_ZeroTileIsError ==
    (/\ pc # "opened" /\ arg.gridSize[1] >= 1 /\ arg.gridSize[2] >= 1
     /\ \/ gridTileSize[1] = 0 \/ gridTileSize[2] = 0
        \/ cellTileSize[1] = 0 \/ cellTileSize[2] = 0) =>
        /\ IsError(grid)
        /\ pc = "failed"
        /\ stdout = <<>>

C11_Witness ==
    /\ pc = "failed" /\ arg.gridSize = <<2, 1>>
    /\ image.size = <<1, 1>>
    /\ gridTileSize = <<0, 1>>
    /\ IsError(grid)

(***************************************************************************)
(* C16: when the tile size of a grid import is at least the canvas size on *)
(* each axis, the result has gridRows rows of gridCols cells, the cell at  *)
(* [row][col] is the canvas of the tile with origin (col*tileW, row*tileH) *)
(* and size (tileW, tileH) of the normalized image, titled                 *)
(* "<title> (<col>, <row>)" with the grid's author, and no origin lookup   *)
(* is out of range.                                                        *)
(***************************************************************************)
C16_CellMapping ==
    (/\ pc # "opened" /\ arg.gridSize[1] >= 1 /\ arg.gridSize[2] >= 1
     /\ gridTileSize[1] >= getSize(arg.canvas)[1]
     /\ gridTileSize[2] >= getSize(arg.canvas)[2]) =>
        LET cols == arg.gridSize[1]
            rows == arg.gridSize[2]
            tile(col, row) ==
                crop(constrainToPowerOfTwo(image),
                     << col * gridTileSize[1], row * gridTileSize[2],
                        (col + 1) * gridTileSize[1], (row + 1) * gridTileSize[2] >>)
        IN  /\ grid.tag = "JopMultiBlockImage"
            /\ grid.author = arg.author /\ grid.title = arg.title
            /\ Len(grid.imageGrid) = rows
            /\ \A row \in 0..(rows - 1) :
                  /\ Len(grid.imageGrid[row + 1]) = cols
                  /\ \A col \in 0..(cols - 1) :
                        LET cell == grid.imageGrid[row + 1][col + 1]
                            built == fromImage(tile(col, row), arg.canvas,
                                               <<>>, <<>>, None, 0)
                        IN  /\ cell.canvasType = arg.canvas
                            /\ cell.pixels = built.pixels
                            /\ cell.author = arg.author
                            /\ cell.title = arg.title \o <<" ", "(">> \o DecDigits(col)
                                              \o <<",", " ">> \o DecDigits(row) \o <<")">>

C16_Witness ==
    /\ pc = "imported" /\ arg.gridSize = <<2, 2>> /\ image.size = <<64, 32>>
    /\ arg.canvas = LONG
    /\ grid.tag = "JopMultiBlockImage"
    /\ grid.imageGrid[1][2].pixels # grid.imageGrid[2][1].pixels
    /\ grid.imageGrid[1][2].title = arg.title \o <<" ", "(", "1", ",", " ", "0", ")">>

(***************************************************************************)
(* SpecCtor: a JopMultiBlockImage constructed from a grid of canvases the  *)
(* caller built, whose names the caller chose.                             *)
(***************************************************************************)
\* grids of at most MaxCells cells
MaxCells == 4

CellNames ==
    { [text |-> PaintingName(7)], [text |-> PaintingName(8)],
      [text |-> <<"A">>] }

Cells ==
    { JopImage(SMALL, <<"B", "o", "b">>, <<"A">>, PatternPixels(0, 256), n, Now) :
        n \in CellNames }

GridShapes ==
    { sh \in (0..MaxCells) \X (0..MaxCells) : sh[1] * sh[2] <= MaxCells }

CellGrids ==
    UNION { [1..sh[1] -> [1..sh[2] -> Cells]] : sh \in GridShapes }

InitCtor ==
    /\ pc = "given"
    /\ arg \in [fn : {"JopMultiBlockImage"}, author : Authors, title : Titles,
                imageGrid : CellGrids]
    /\ grid = None /\ stdout = <<>>
    /\ image = None /\ canvas = None /\ ret = None /\ file = None /\ loaded = None

\* JopMultiBlockImage(author, title, imageGrid)
NewJopMultiBlockImage ==
    /\ pc = "given"
    /\ grid' = JopMultiBlockImage(arg.author, arg.title, arg.imageGrid)
    /\ stdout' = IF areNamesValid(arg.imageGrid) THEN stdout
                  ELSE Append(stdout, NamesWarning)
    /\ pc' = "constructed"
    /\ UNCHANGED <<arg, ret, image, canvas, file, loaded>>

NextCtor == NewJopMultiBlockImage

SpecCtor == InitCtor /\ [][NextCtor]_vars

(***************************************************************************)
(* C12: constructing a JopMultiBlockImage from any 2D grid of cells        *)
(* succeeds and keeps the cells, the author and the title; areNamesValid   *)
(* is true exactly when the names of the cells are pairwise distinct, and  *)
(* the warning is printed by the constructor exactly when it is false.     *)
(***************************************************************************)
C12_NamesAdvisory ==
    (pc = "constructed") =>
        LET positions == { <<y, x>> : y \in 1..MaxCells, x \in 1..MaxCells }
            inGrid == { q \in positions : q[1] <= Len(arg.imageGrid)
                                          /\ q[2] <= Len(arg.imageGrid[q[1]]) }
            distinct == \A q1, q2 \in inGrid :
                            (q1 # q2) => (arg.imageGrid[q1[1]][q1[2]].name
                                              # arg.imageGrid[q2[1]][q2[2]].name)
        IN  /\ grid.tag = "JopMultiBlockImage"
            /\ grid.imageGrid = arg.imageGrid
            /\ grid.author = arg.author /\ grid.title = arg.title
            /\ areNamesValid(grid.imageGrid) <=> distinct
            /\ distinct => (stdout = <<>>)
            /\ (~distinct) => (stdout = <<NamesWarning>>)

C12_Witness ==
    /\ pc = "constructed"
    /\ Len(arg.imageGrid) = 2 /\ Len(arg.imageGrid[1]) = 2
    /\ arg.imageGrid[1][1].name = arg.imageGrid[2][1].name
    /\ arg.imageGrid[1][1].name # arg.imageGrid[1][2].name
    /\ arg.imageGrid[2][1].name # arg.imageGrid[2][2].name
    /\ grid.tag = "JopMultiBlockImage" /\ grid.imageGrid = arg.imageGrid
    /\ stdout = <<NamesWarning>>

(***************************************************************************)
(* Paths and files: a path is the sequence of its characters; the files    *)
(* written are kept as a function from the path to what was written.       *)
(***************************************************************************)
\* the last index of character c in s, 0 when there is none
LastIndex(s, c) ==
    IF \E i \in 1..Len(s) : s[i] = c
    THEN CHOOSE i \in 1..Len(s) : s[i] = c /\ \A j \in (i + 1)..Len(s) : s[j] # c
    ELSE 0

\* the working directory of the process
Cwd == <<"/", "w">>

\* fullpath: os.path.abspath of a path without "~", "$", "." or ".." parts
fullpath(path) ==
    IF Len(path) > 0 /\ path[1] = "/" THEN path ELSE Cwd \o <<"/">> \o path

\* os.path.dirname and os.path.basename
dirname(path) ==
    LET i == LastIndex(path, "/")
    IN  IF i <= 1 THEN SubSeq(path, 1, i) ELSE SubSeq(path, 1, i - 1)

basename(path) == SubSeq(path, LastIndex(path, "/") + 1, Len(path))

\* os.path.splitext: the extension starts at the last dot, unless only dots
\* come before it
splitext(name) ==
    LET i == LastIndex(name, ".")
    IN  IF i > 0 /\ \E j \in 1..(i - 1) : name[j] # "."
        THEN << SubSeq(name, 1, i - 1), SubSeq(name, i, Len(name)) >>
        ELSE << name, <<>> >>

\* os.path.join of a directory and a relative name
join(dirPath, name) ==
    IF Len(dirPath) = 0 \/ dirPath[Len(dirPath)] = "/" THEN dirPath \o name
    ELSE dirPath \o <<"/">> \o name

\* JopMultiBlockImage._getPathParts: fileExt[0] of an empty extension raises
\* IndexError
getPathParts(path) ==
    LET dirPath == dirname(path)
        fileName == splitext(basename(path))[1]
        fileExt == splitext(basename(path))[2]
    IN  IF Len(fileExt) = 0 THEN Raised("IndexError")
        ELSE [tag |-> "parts", dirPath |-> dirPath, fileName |-> fileName,
              fileExt |-> IF fileExt[1] # "." THEN <<".">> \o fileExt ELSE fileExt]

\* the disk after one more file is written
WriteFile(disk, path, content) ==
    [tag |-> "Files",
     at |-> IF disk = None THEN (path :> content) ELSE (path :> content) @@ disk.at]

\* a size argument that is not None
SizeArg(size) == [tag |-> "size", value |-> size]

\* file name extensions PIL's Image.save knows a format for (three of them)
ImageExts ==
    { <<".", "p", "n", "g">>, <<".", "j", "p", "g">>, <<".", "b", "m", "p">> }

\* image.save(path): the format comes from the extension, an unknown one
\* raises ValueError before anything is written
imageSave(img, path) ==
    IF splitext(basename(path))[2] \in ImageExts THEN img ELSE Raised("ValueError")

\* JopImage.getImage(size): resized when a size is given
getImageSized(self, size) ==
    LET img == getImage(self)
    IN  IF IsError(img) \/ size = None THEN img ELSE resize(img, size.value)

\* JopImage.saveImage(path, size): what is written, or the error
saveImage(self, path, size) ==
    LET img == getImageSized(self, size)
    IN  IF IsError(img) THEN img ELSE imageSave(img, fullpath(path))

\* JopMultiBlockImage.saveImage(path, size): what is written, or the error;
\* size[0] of None raises TypeError, imageGrid[0] of an empty grid IndexError
gridSaveImage(self, path, size) ==
    IF size = None THEN Raised("TypeError")
    ELSE IF Len(self.imageGrid) = 0 THEN Raised("IndexError")
    ELSE
    LET w == size.value[1]
        h == size.value[2]
        rows == Len(self.imageGrid)
        cells == [y \in 1..rows |-> [x \in 1..Len(self.imageGrid[y]) |->
                     getImageSized(self.imageGrid[y][x], size)]]
        flat == Flatten(cells)
    IN  IF \E k \in 1..Len(flat) : IsError(flat[k])
        THEN flat[CHOOSE k \in 1..Len(flat) :
                      IsError(flat[k]) /\ \A j \in 1..(k - 1) : ~IsError(flat[j])]
        ELSE imageSave(
                 Image(<< w * Len(self.imageGrid[1]), h * rows >>,
                       [py \in 1..(h * rows) |->
                          [px \in 1..(w * Len(self.imageGrid[1])) |->
                              LET x == (px - 1) \div w
                                  y == (py - 1) \div h
                              IN  IF x < Len(self.imageGrid[y + 1])
                                  THEN Pixel(cells[y + 1][x + 1],
                                             (px - 1) % w, (py - 1) % h)
                                  ELSE <<0, 0, 0>>]]),
                 fullpath(path))

\* the loop over the cells of saveImageGrid (kind "image") and of
\* saveJopImageGrid (kind "paint"): cell k (from 1) in row-major order is
\* written to <dirPath>/<fileName>_<x>_<y><fileExt>; an error of a cell ends
\* the loop, the files written before it stay
RECURSIVE exportLoop(_, _, _)
exportLoop(c, k, acc) ==
    IF k > Len(c.cells) THEN acc
    ELSE LET x == c.cells[k][1]
             y == c.cells[k][2]
             jopPath == join(c.dirPath,
                             c.fileName \o <<"_">> \o DecDigits(x) \o <<"_">>
                                 \o DecDigits(y) \o c.fileExt)
             written == IF c.kind = "image"
                        THEN saveImage(c.imageGrid[y + 1][x + 1], jopPath, c.size)
                        ELSE saveJopImage(c.imageGrid[y + 1][x + 1])
         IN  IF IsError(written) THEN [acc EXCEPT !.value = written]
             ELSE exportLoop(c, k + 1,
                             [tag |-> "exported",
                              disk |-> WriteFile(acc.disk, fullpath(jopPath), written),
                              value |-> [tag |-> "paths",
                                         paths |-> Append(acc.value.paths, jopPath)]])

\* the (x, y) of the cells in the order of the two loops
cellsRowMajor(imageGrid) ==
    Flatten([y \in 1..Len(imageGrid) |->
                [x \in 1..Len(imageGrid[y]) |-> <<x - 1, y - 1>>]])

\* JopMultiBlockImage.saveImageGrid(path, size) on a disk: the disk after
\* the call and the paths returned, or the error
saveImageGrid(self, disk, path, size) ==
    LET parts == getPathParts(fullpath(path))
    IN  IF IsError(parts) THEN [tag |-> "exported", disk |-> disk, value |-> parts]
        ELSE exportLoop([kind |-> "image", imageGrid |-> self.imageGrid,
                         cells |-> cellsRowMajor(self.imageGrid), size |-> size,
                         dirPath |-> parts.dirPath, fileName |-> parts.fileName,
                         fileExt |-> parts.fileExt],
                        1, [tag |-> "exported", disk |-> disk,
                            value |-> [tag |-> "paths", paths |-> <<>>]])

\* JopMultiBlockImage.saveJopImageGrid(path) on a disk
saveJopImageGrid(self, disk, path) ==
    LET parts == getPathParts(fullpath(path))
    IN  IF IsError(parts) THEN [tag |-> "exported", disk |-> disk, value |-> parts]
        ELSE exportLoop([kind |-> "paint", imageGrid |-> self.imageGrid,
                         cells |-> cellsRowMajor(self.imageGrid), size |-> None,
                         dirPath |-> parts.dirPath, fileName |-> parts.fileName,
                         fileExt |-> <<".", "p", "a", "i", "n", "t">>],
                        1, [tag |-> "exported", disk |-> disk,
                            value |-> [tag |-> "paths", paths |-> <<>>]])

(***************************************************************************)
(* SpecGridUse: a grid imported from a 32 x 32 image and then used: a      *)
(* second, separate import next to it, or an export of the grid.           *)
(***************************************************************************)
InitGridUse ==
    /\ InitGrid
    /\ image = PatternImage(<<32, 32>>, 0)

\* a second, separate JopMultiBlockImage.fromImage call on the same image
\* with its own grid size, title and uuid4() and random.randint draws
GridFromImageAgain ==
    /\ pc = "imported"
    /\ \E gridSize \in {arg.gridSize, <<1, 1>>}, title \in Titles, draw \in IdDraws :
          \E g \in { gridFromImage(gridSize, image, title, arg.author,
                                    arg.canvas, draw.uuidSum, draw.rand) } :
              /\ ret' = [tag |-> "call", fn |-> "fromImage", gridSize |-> gridSize,
                         title |-> title, draw |-> draw, value |-> g]
              /\ IF IsError(g) THEN pc' = "failedAgain" /\ UNCHANGED stdout
                 ELSE /\ pc' = "importedAgain"
                      /\ stdout' = IF areNamesValid(g.imageGrid) THEN stdout
                                    ELSE Append(stdout, NamesWarning)
    /\ UNCHANGED <<arg, grid, image, canvas, file, loaded>>

\* base paths: with an extension, without one, relative with two dots, and
\* a dot file
ExportPaths ==
    { <<"/", "o", "/", "a", ".", "p", "n", "g">>, <<"/", "o", "/", "a">>,
      <<"a", ".", "b", ".", "p", "a", "i", "n", "t">>, <<"/", "o", "/", ".", "a">> }

ExportSizes == { None, SizeArg(<<8, 8>>) }

\* grid.saveImage(path, size)
GridSaveImage ==
    /\ pc = "imported"
    /\ \E path \in ExportPaths, size \in ExportSizes :
          \E written \in { gridSaveImage(grid, path, size) } :
              /\ ret' = [tag |-> "call", fn |-> "saveImage", path |-> path,
                         size |-> size,
                         value |-> IF IsError(written) THEN written ELSE None]
              /\ file' = IF IsError(written) THEN file
                         ELSE WriteFile(file, fullpath(path), written)
    /\ pc' = "exported"
    /\ UNCHANGED <<arg, grid, image, canvas, loaded, stdout>>

\* grid.saveImageGrid(path, size)
SaveImageGrid ==
    /\ pc = "imported"
    /\ \E path \in ExportPaths, size \in ExportSizes :
          \E done \in { saveImageGrid(grid, file, path, size) } :
              /\ ret' = [tag |-> "call", fn |-> "saveImageGrid", path |-> path,
                         size |-> size, value |-> done.value]
              /\ file' = done.disk
    /\ pc' = "exported"
    /\ UNCHANGED <<arg, grid, image, canvas, loaded, stdout>>

\* grid.saveJopImageGrid(path)
SaveJopImageGrid ==
    /\ pc = "imported"
    /\ \E path \in ExportPaths :
          \E done \in { saveJopImageGrid(grid, file, path) } :
              /\ ret' = [tag |-> "call", fn |-> "saveJopImageGrid", path |-> path,
                         size |-> None, value |-> done.value]
              /\ file' = done.disk
    /\ pc' = "exported"
    /\ UNCHANGED <<arg, grid, image, canvas, loaded, stdout>>

NextGridUse ==
    \/ GridFromImage \/ GridFromImageAgain
    \/ GridSaveImage \/ SaveImageGrid \/ SaveJopImageGrid

SpecGridUse == InitGridUse /\ [][NextGridUse]_vars

\* the names of the cells of a grid, and the root ids of the two calls
cellNames(g) ==
    UNION { { g.imageGrid[y][x].name : x \in 1..Len(g.imageGrid[y]) } :
              y \in 1..Len(g.imageGrid) }

C15_RootIdAgain ==
    stringToAsciiInt(ret.title \o <<" ">> \o arg.author)
        + ret.draw.uuidSum + ret.draw.rand

(***************************************************************************)
(* C15 (as claimed): two grids produced by two separate imports never      *)
(* share a cell name.                                                      *)
(***************************************************************************)
C15_CrossGridUniqueness ==
    (pc = "importedAgain") => (cellNames(grid) \cap cellNames(ret.value) = {})

(***************************************************************************)
(* C15 (amended): two grids produced by two separate imports share a cell  *)
(* name exactly when their id ranges rootId .. rootId + cells - 1 overlap; *)
(* with root ids at least the cell count apart the names are disjoint.     *)
(***************************************************************************)
C15_DisjointIffRangesApart ==
    (pc = "importedAgain") =>
        LET first == C7_RootId
            second == C15_RootIdAgain
            apart == \/ second >= first + (arg.gridSize[1] * arg.gridSize[2])
                     \/ first >= second + (ret.gridSize[1] * ret.gridSize[2])
        IN  (cellNames(grid) \cap cellNames(ret.value) = {}) <=> apart

C15_Witness ==
    /\ pc = "importedAgain" /\ arg.gridSize = <<2, 2>> /\ ret.gridSize = <<2, 2>>
    /\ ret.title # arg.title
    /\ C15_RootIdAgain >= C7_RootId + 4
    /\ Cardinality(cellNames(grid)) = 4 /\ Cardinality(cellNames(ret.value)) = 4
    /\ cellNames(grid) \cap cellNames(ret.value) = {}

(***************************************************************************)
(* C17: saveImage called with size None saves a composite image of size    *)
(* (nativeW*cols, nativeH*rows), (nativeW, nativeH) being the canvas size  *)
(* of the cells, with the image of cell [row][col] at offset               *)
(* (col*nativeW, row*nativeH).                                             *)
(***************************************************************************)
C17_CompositeNativeSize ==
    (/\ pc = "exported" /\ ret.fn = "saveImage" /\ ret.size = None) =>
        LET native == getSize(arg.canvas)
            cols == arg.gridSize[1]
            rows == arg.gridSize[2]
        IN  /\ ret.value = None
            /\ file # None
            /\ DOMAIN file.at = {fullpath(ret.path)}
            /\ LET saved == file.at[fullpath(ret.path)]
               IN  /\ saved.size = << native[1] * cols, native[2] * rows >>
                   /\ \A row \in 0..(rows - 1), col \in 0..(cols - 1) :
                         crop(saved, << col * native[1], row * native[2],
                                        (col + 1) * native[1],
                                        (row + 1) * native[2] >>)
                             = getImage(grid.imageGrid[row + 1][col + 1])

(***************************************************************************)
(* C18: for any base path, saveImageGrid and saveJopImageGrid write one    *)
(* file per cell and return rows*cols paths in row-major order, the path   *)
(* of cell [row][col] being <dir>/<fileName>_<col>_<row><ext> (ext ".paint"*)
(* for canvases, the base path's extension for images); the paths are      *)
(* pairwise distinct.                                                      *)
(***************************************************************************)
C18_ExportNaming ==
    (/\ pc = "exported" /\ ret.fn \in {"saveImageGrid", "saveJopImageGrid"}) =>
        LET cols == arg.gridSize[1]
            rows == arg.gridSize[2]
            base == fullpath(ret.path)
            dir == dirname(base)
            fileName == splitext(basename(base))[1]
            ext == IF ret.fn = "saveJopImageGrid" THEN <<".", "p", "a", "i", "n", "t">>
                   ELSE splitext(basename(base))[2]
            cellPath(col, row) ==
                dir \o <<"/">> \o fileName \o <<"_">> \o DecDigits(col)
                    \o <<"_">> \o DecDigits(row) \o ext
        IN  /\ ret.value.tag = "paths"
            /\ Len(ret.value.paths) = rows * cols
            /\ \A row \in 0..(rows - 1), col \in 0..(cols - 1) :
                  ret.value.paths[(row * cols) + col + 1] = cellPath(col, row)
            /\ \A i, j \in 1..Len(ret.value.paths) :
                  (i # j) => (ret.value.paths[i] # ret.value.paths[j])
            /\ file # None
            /\ DOMAIN file.at = { ret.value.paths[i] : i \in 1..Len(ret.value.paths) }

====
